---- MODULE Spec2Model ----
(***************************************************************************)
(* Model of pkg/sr/sr-adjacencysid.go: the Segment Routing Adjacency SID   *)
(* TLV.  Two constructors (UnmarshalAdjacencySIDTLV from the wire bytes,   *)
(* BuildAdjacencySID from a JSON map) and the MarshalJSON methods of the   *)
(* three flag structs.  The functions are pure; a behaviour picks one      *)
(* input, calls one constructor, serialises the flags of the result and    *)
(* builds again from the serialised flags.                                 *)
(***************************************************************************)
EXTENDS Integers, Sequences, FiniteSets, TLC

VARIABLES pc, origin, tag, tlv, jmap, asid, err, panicked, js, asid2, err2

vars == <<pc, origin, tag, tlv, jmap, asid, err, panicked, js, asid2, err2>>

(***************************************************************************)
(* Bounds of the model.                                                    *)
(***************************************************************************)
\* longest SID carried after the 4 byte header
MaxSidLen == 2
\* most keys of a "flags" object that hold something else than true/false
MaxBadKeys == 1

(***************************************************************************)
(* Go values.                                                              *)
(***************************************************************************)
\* nil pointer / nil interface / nil error
Nil == [nil |-> TRUE]

\* base.ProtoID values the switch statements name, and two they do not
ISISL1 == "ISISL1"
ISISL2 == "ISISL2"
OSPFv2 == "OSPFv2"
OSPFv3 == "OSPFv3"
ProtoIDs == {ISISL1, ISISL2, OSPFv2, OSPFv3, "Direct", "Unknown"}

\* x & y on bytes
RECURSIVE And(_, _)
And(x, y) ==
    IF x = 0 \/ y = 0 THEN 0
    ELSE (x % 2) * (y % 2) + 2 * And(x \div 2, y \div 2)

(***************************************************************************)
(* JSON values (the content of a json.RawMessage).                         *)
(***************************************************************************)
JNull == [t |-> "null"]
JBool(v) == [t |-> "bool", b |-> v]
\* a number literal: int is FALSE when the literal has a fraction or exponent
JNum(k) == [t |-> "num", int |-> TRUE, n |-> k]
JFrac(k) == [t |-> "num", int |-> FALSE, n |-> k]
JStr(x) == [t |-> "str", s |-> x]
JArr(x) == [t |-> "arr", e |-> x]
JObj(x) == [t |-> "obj", m |-> x]

\* the map with no key
EmptyMap == [k \in {} |-> JNull]

\* base64.StdEncoding of the strings the model uses; a string outside the
\* table is not valid base64
Base64Table ==
    [s \in {"", "AQID", "CQkJCQ=="} |->
        CASE s = "" -> <<>>
          [] s = "AQID" -> <<1, 2, 3>>
          [] s = "CQkJCQ==" -> <<9, 9, 9, 9>>]

\* json.Unmarshal(v, &x) for x bool: result is the error and the new x
UnmarshalBool(v, cur) ==
    CASE v.t = "bool" -> [err |-> Nil, val |-> v.b]
      [] v.t = "null" -> [err |-> Nil, val |-> cur]
      [] OTHER -> [err |-> [nil |-> FALSE, msg |-> "json: cannot unmarshal into bool"],
                   val |-> cur]

\* json.Unmarshal(v, &x) for x uint8
UnmarshalUint8(v, cur) ==
    CASE v.t = "num" /\ v.int /\ v.n >= 0 /\ v.n <= 255 -> [err |-> Nil, val |-> v.n]
      [] v.t = "null" -> [err |-> Nil, val |-> cur]
      [] OTHER -> [err |-> [nil |-> FALSE, msg |-> "json: cannot unmarshal into uint8"],
                   val |-> cur]

\* json.Unmarshal(v, &x) for x []byte: a base64 string or an array of uint8
UnmarshalBytes(v, cur) ==
    CASE v.t = "str" ->
            IF v.s \in DOMAIN Base64Table
            THEN [err |-> Nil, val |-> Base64Table[v.s]]
            ELSE [err |-> [nil |-> FALSE, msg |-> "illegal base64 data"], val |-> cur]
      [] v.t = "arr" ->
            LET el == [i \in 1..Len(v.e) |-> UnmarshalUint8(v.e[i], 0)]
            IN  [err |-> IF \E i \in 1..Len(v.e) : el[i].err # Nil
                         THEN [nil |-> FALSE, msg |-> "json: cannot unmarshal into uint8"]
                         ELSE Nil,
                 val |-> [i \in 1..Len(v.e) |-> el[i].val]]
      [] v.t = "null" -> [err |-> Nil, val |-> <<>>]
      [] OTHER -> [err |-> [nil |-> FALSE, msg |-> "json: cannot unmarshal into []uint8"],
                   val |-> cur]

\* json.Unmarshal(v, &fo) for fo map[string]json.RawMessage
UnmarshalMap(v) ==
    CASE v.t = "obj" -> [err |-> Nil, val |-> v.m]
      [] v.t = "null" -> [err |-> Nil, val |-> EmptyMap]
      [] OTHER -> [err |-> [nil |-> FALSE, msg |-> "json: cannot unmarshal into map"],
                   val |-> EmptyMap]

(***************************************************************************)
(* Flags from the wire octet.                                              *)
(***************************************************************************)
UnmarshalAdjacencySIDISISFlags(b) ==
    [variant |-> "adjISISFlags",
     F |-> And(b, 128) = 128,
     B |-> And(b, 64) = 64,
     V |-> And(b, 32) = 32,
     L |-> And(b, 16) = 16,
     S |-> And(b, 8) = 8,
     P |-> And(b, 4) = 4]

UnmarshalAdjacencySIDOSPFFlags(b) ==
    [variant |-> "adjISISFlags",
     F |-> And(b, 128) = 128,
     B |-> And(b, 64) = 64,
     V |-> And(b, 32) = 32,
     L |-> And(b, 16) = 16,
     S |-> And(b, 8) = 8,
     P |-> And(b, 4) = 4]

\* the switch with a default case that falls back to the ISIS layout
DecodeFlagsWithDefault(protoID, o) ==
    CASE protoID \in {ISISL1, ISISL2} -> UnmarshalAdjacencySIDISISFlags(o)
      [] protoID \in {OSPFv2, OSPFv3} -> UnmarshalAdjacencySIDOSPFFlags(o)
      [] OTHER -> UnmarshalAdjacencySIDISISFlags(o)

\* the switch on protoID of UnmarshalAdjacencySIDTLV; no default case
DecodeFlags(protoID, o) ==
    CASE protoID \in {ISISL1, ISISL2} -> UnmarshalAdjacencySIDISISFlags(o)
      [] protoID \in {OSPFv2, OSPFv3} -> UnmarshalAdjacencySIDOSPFFlags(o)
      [] OTHER -> Nil

\* the copy started one byte early (p = 3)
CopySIDOffByOne(b) == [i \in 1..(Len(b) - 4) |-> b[3 + i]]

\* copy(asid.SID, b[p:p+sl]) with p = 4 and sl = len(b) - 4
CopySID(b) == [i \in 1..(Len(b) - 4) |-> b[4 + i]]

\* the first failing operation of UnmarshalAdjacencySIDTLV on a short slice
UnmarshalPanic(protoID, b) ==
    CASE protoID \in {ISISL1, ISISL2, OSPFv2, OSPFv3} /\ Len(b) < 1 ->
            "index out of range [0]"
      [] Len(b) < 2 -> "index out of range [1]"
      [] Len(b) < 4 -> "makeslice: len out of range"
      [] OTHER -> "none"

\* result: the returned pointer, the returned error, and whether the call
\* ended in a run-time panic instead of returning
UnmarshalAdjacencySIDTLV(protoID, b) ==
    IF UnmarshalPanic(protoID, b) # "none"
    THEN [asid |-> Nil, err |-> Nil, panic |-> UnmarshalPanic(protoID, b)]
    ELSE [asid |-> [nil |-> FALSE,
                    Flags |-> DecodeFlags(protoID, b[1]),
                    Weight |-> b[2],
                    SID |-> CopySID(b)],
          err |-> Nil,
          panic |-> "none"]

(***************************************************************************)
(* Flags from a JSON object.                                               *)
(***************************************************************************)
\* f.X = false; if v, ok := b[key]; ok { json.Unmarshal(v, &f.X) }
FlagField(b, key) ==
    IF key \in DOMAIN b THEN UnmarshalBool(b[key], FALSE)
    ELSE [err |-> Nil, val |-> FALSE]

\* the error of the first field, in the order given, that failed to parse
FirstErr(rs) ==
    IF \E i \in 1..Len(rs) : rs[i].err # Nil
    THEN rs[CHOOSE i \in 1..Len(rs) :
                /\ rs[i].err # Nil
                /\ \A j \in 1..(i - 1) : rs[j].err = Nil].err
    ELSE Nil

buildAdjISISFlags(b) ==
    LET rF == FlagField(b, "f_flag")
        rB == FlagField(b, "b_flag")
        rV == FlagField(b, "v_flag")
        rL == FlagField(b, "l_flag")
        rS == FlagField(b, "s_flag")
        rP == FlagField(b, "p_flag")
        e  == FirstErr(<<rF, rB, rV, rL, rS, rP>>)
    IN  IF e # Nil THEN [f |-> Nil, err |-> e]
        ELSE [f |-> [variant |-> "adjISISFlags",
                     F |-> rF.val, B |-> rB.val, V |-> rV.val,
                     L |-> rL.val, S |-> rS.val, P |-> rP.val],
              err |-> Nil]

\* G read from the key that MarshalJSON writes ("s_flag")
buildAdjOSPFv2FlagsSKey(b) ==
    LET rB == FlagField(b, "b_flag")
        rV == FlagField(b, "v_flag")
        rL == FlagField(b, "l_flag")
        rG == FlagField(b, "s_flag")
        rP == FlagField(b, "p_flag")
        e  == FirstErr(<<rB, rV, rL, rG, rP>>)
    IN  IF e # Nil THEN [f |-> Nil, err |-> e]
        ELSE [f |-> [variant |-> "adjOSPFv2Flags",
                     B |-> rB.val, V |-> rV.val, L |-> rL.val,
                     G |-> rG.val, P |-> rP.val],
              err |-> Nil]

buildAdjOSPFv2Flags(b) ==
    LET rB == FlagField(b, "b_flag")
        rV == FlagField(b, "v_flag")
        rL == FlagField(b, "l_flag")
        rG == FlagField(b, "g_flag")
        rP == FlagField(b, "p_flag")
        e  == FirstErr(<<rB, rV, rL, rG, rP>>)
    IN  IF e # Nil THEN [f |-> Nil, err |-> e]
        ELSE [f |-> [variant |-> "adjOSPFv2Flags",
                     B |-> rB.val, V |-> rV.val, L |-> rL.val,
                     G |-> rG.val, P |-> rP.val],
              err |-> Nil]

buildAdjOSPFv3Flags(b) ==
    LET rB == FlagField(b, "b_flag")
        rV == FlagField(b, "v_flag")
        rL == FlagField(b, "l_flag")
        rG == FlagField(b, "g_flag")
        rP == FlagField(b, "p_flag")
        e  == FirstErr(<<rB, rV, rL, rG, rP>>)
    IN  IF e # Nil THEN [f |-> Nil, err |-> e]
        ELSE [f |-> [variant |-> "adjOSPFv3Flags",
                     B |-> rB.val, V |-> rV.val, L |-> rL.val,
                     G |-> rG.val, P |-> rP.val],
              err |-> Nil]

(***************************************************************************)
(* MarshalJSON of the three flag structs: the keys are the struct tags.    *)
(***************************************************************************)
adjISISFlagsMarshalJSON(f) ==
    JObj([k \in {"f_flag", "b_flag", "v_flag", "l_flag", "s_flag", "p_flag"} |->
            CASE k = "f_flag" -> JBool(f.F)
              [] k = "b_flag" -> JBool(f.B)
              [] k = "v_flag" -> JBool(f.V)
              [] k = "l_flag" -> JBool(f.L)
              [] k = "s_flag" -> JBool(f.S)
              [] k = "p_flag" -> JBool(f.P)])

adjOSPFv2FlagsMarshalJSON(f) ==
    JObj([k \in {"b_flag", "v_flag", "l_flag", "s_flag", "p_flag"} |->
            CASE k = "b_flag" -> JBool(f.B)
              [] k = "v_flag" -> JBool(f.V)
              [] k = "l_flag" -> JBool(f.L)
              [] k = "s_flag" -> JBool(f.G)
              [] k = "p_flag" -> JBool(f.P)])

adjOSPFv3FlagsMarshalJSON(f) ==
    JObj([k \in {"b_flag", "v_flag", "l_flag", "s_flag", "p_flag"} |->
            CASE k = "b_flag" -> JBool(f.B)
              [] k = "v_flag" -> JBool(f.V)
              [] k = "l_flag" -> JBool(f.L)
              [] k = "s_flag" -> JBool(f.G)
              [] k = "p_flag" -> JBool(f.P)])

\* AdjacencySIDFlags.MarshalJSON: dispatch on the dynamic type
MarshalJSON(f) ==
    CASE f.variant = "adjISISFlags" -> adjISISFlagsMarshalJSON(f)
      [] f.variant = "adjOSPFv2Flags" -> adjOSPFv2FlagsMarshalJSON(f)
      [] f.variant = "adjOSPFv3Flags" -> adjOSPFv3FlagsMarshalJSON(f)

(***************************************************************************)
(* BuildAdjacencySID.                                                      *)
(***************************************************************************)
\* the "flags" key: parse the object, then switch on protoID (no default)
BuildFlags(protoID, b) ==
    IF "flags" \notin DOMAIN b THEN [f |-> Nil, err |-> Nil]
    ELSE LET fo == UnmarshalMap(b["flags"])
         IN  IF fo.err # Nil THEN [f |-> Nil, err |-> fo.err]
             ELSE CASE protoID \in {ISISL1, ISISL2} -> buildAdjISISFlags(fo.val)
                    [] protoID = OSPFv2 -> buildAdjOSPFv2Flags(fo.val)
                    [] protoID = OSPFv3 -> buildAdjOSPFv3Flags(fo.val)
                    [] OTHER -> [f |-> Nil, err |-> Nil]

\* the "weight" key
BuildWeight(b) ==
    IF "weight" \in DOMAIN b THEN UnmarshalUint8(b["weight"], 0)
    ELSE [err |-> Nil, val |-> 0]

\* the "sid" key
BuildSID(b) ==
    IF "sid" \in DOMAIN b THEN UnmarshalBytes(b["sid"], <<>>)
    ELSE [err |-> Nil, val |-> <<>>]

\* the object leaks out next to a weight error
BuildAdjacencySIDPartial(protoID, b) ==
    LET rf == BuildFlags(protoID, b)
        rw == BuildWeight(b)
        rs == BuildSID(b)
    IN  IF rf.err # Nil THEN [asid |-> Nil, err |-> rf.err]
        ELSE IF rw.err # Nil
        THEN [asid |-> [nil |-> FALSE, Flags |-> rf.f, Weight |-> 0, SID |-> <<>>],
              err |-> rw.err]
        ELSE IF rs.err # Nil THEN [asid |-> Nil, err |-> rs.err]
        ELSE [asid |-> [nil |-> FALSE, Flags |-> rf.f, Weight |-> rw.val,
                        SID |-> rs.val],
              err |-> Nil]

BuildAdjacencySID(protoID, b) ==
    LET rf == BuildFlags(protoID, b)
        rw == BuildWeight(b)
        rs == BuildSID(b)
    IN  IF rf.err # Nil THEN [asid |-> Nil, err |-> rf.err]
        ELSE IF rw.err # Nil THEN [asid |-> Nil, err |-> rw.err]
        ELSE IF rs.err # Nil THEN [asid |-> Nil, err |-> rs.err]
        ELSE [asid |-> [nil |-> FALSE, Flags |-> rf.f, Weight |-> rw.val,
                        SID |-> rs.val],
              err |-> Nil]

(***************************************************************************)
(* Inputs.                                                                 *)
(***************************************************************************)
Octets == 0..255
Weights == {10, 255}
Reserved2 == {0, 255}
Reserved3 == {0, 1}
SidBytes == {1, 2}
SidSeqs == UNION {[1..n -> SidBytes] : n \in 0..MaxSidLen}

TLVInputs ==
    {<<>>}
    \cup {<<o>> : o \in Octets}
    \cup {<<o, w>> : o \in Octets, w \in Weights}
    \cup {<<o, w, r>> : o \in Octets, w \in Weights, r \in Reserved2}
    \cup {<<o, w, r2, r3>> \o s :
            o \in Octets, w \in Weights, r2 \in Reserved2, r3 \in Reserved3,
            s \in SidSeqs}

FlagKeys == {"f_flag", "b_flag", "v_flag", "l_flag", "s_flag", "g_flag", "p_flag"}
FlagVals == {JBool(TRUE), JBool(FALSE), JNull, JStr("x")}
FlagObjects ==
    {m \in UNION {[K -> FlagVals] : K \in SUBSET FlagKeys} :
        Cardinality({k \in DOMAIN m : m[k].t # "bool"}) <= MaxBadKeys}

\* a key that the map does not hold
Absent == [t |-> "absent"]

SimpleFlags ==
    {Absent, JNull, JBool(TRUE), JNum(5), JStr("x"), JArr(<<>>), JObj(EmptyMap),
     JObj([k \in {"b_flag", "p_flag"} |-> JBool(TRUE)]),
     JObj([k \in {"b_flag"} |-> JNum(1)])}
WeightVals ==
    {Absent, JNum(0), JNum(5), JNum(255), JNum(256), JNum(-1), JFrac(1),
     JStr("not-a-number"), JNull, JBool(TRUE)}
SidVals ==
    {Absent, JNull, JStr("AQID"), JStr("CQkJCQ=="), JStr("!!"), JArr(<<>>),
     JArr(<<JNum(9), JNum(9), JNum(9), JNum(9)>>), JArr(<<JNum(256)>>),
     JArr(<<JNull, JNum(9)>>), JArr(<<JStr("x")>>), JNum(5), JObj(EmptyMap)}
ExtraVals == {Absent, JStr("x")}

\* the map[string]json.RawMessage with the keys that are not Absent
MkMap(f, w, s, x) ==
    LET v == [k \in {"flags", "weight", "sid", "extra"} |->
                CASE k = "flags" -> f
                  [] k = "weight" -> w
                  [] k = "sid" -> s
                  [] k = "extra" -> x]
    IN  [k \in {k \in DOMAIN v : v[k] # Absent} |-> v[k]]

JSONInputs ==
    {MkMap(JObj(m), Absent, Absent, Absent) : m \in FlagObjects}
    \cup {MkMap(f, w, s, x) :
            f \in SimpleFlags, w \in WeightVals, s \in SidVals, x \in ExtraVals}

(***************************************************************************)
(* The state machine.                                                      *)
(***************************************************************************)
Init ==
    /\ pc = "start"
    /\ tag \in ProtoIDs
    /\ \/ origin = "bin" /\ tlv \in TLVInputs /\ jmap = EmptyMap
       \/ origin = "json" /\ tlv = <<>> /\ jmap \in JSONInputs
    /\ asid = Nil
    /\ err = Nil
    /\ panicked = "none"
    /\ js = JNull
    /\ asid2 = Nil
    /\ err2 = Nil

\* a caller decodes the TLV value it received
CallUnmarshalAdjacencySIDTLV ==
    /\ pc = "start"
    /\ origin = "bin"
    /\ LET r == UnmarshalAdjacencySIDTLV(tag, tlv)
       IN  /\ asid' = r.asid
           /\ err' = r.err
           /\ panicked' = r.panic
    /\ pc' = "decoded"
    /\ UNCHANGED <<origin, tag, tlv, jmap, js, asid2, err2>>

\* a caller builds the object from a parsed JSON map
CallBuildAdjacencySID ==
    /\ pc = "start"
    /\ origin = "json"
    /\ LET r == BuildAdjacencySID(tag, jmap)
       IN  /\ asid' = r.asid
           /\ err' = r.err
    /\ pc' = "built"
    /\ UNCHANGED <<origin, tag, tlv, jmap, panicked, js, asid2, err2>>

\* the flags of the object are serialised
CallMarshalJSON ==
    /\ pc \in {"decoded", "built"}
    /\ asid # Nil
    /\ asid.Flags # Nil
    /\ js' = MarshalJSON(asid.Flags)
    /\ pc' = "marshaled"
    /\ UNCHANGED <<origin, tag, tlv, jmap, asid, err, panicked, asid2, err2>>

\* the serialised flags are built again under the same protocol tag
CallRebuild ==
    /\ pc = "marshaled"
    /\ LET r == BuildAdjacencySID(tag, [k \in {"flags"} |-> js])
       IN  /\ asid2' = r.asid
           /\ err2' = r.err
    /\ pc' = "rebuilt"
    /\ UNCHANGED <<origin, tag, tlv, jmap, asid, err, panicked, js>>

Next ==
    \/ CallUnmarshalAdjacencySIDTLV
    \/ CallBuildAdjacencySID
    \/ CallMarshalJSON
    \/ CallRebuild

Spec == Init /\ [][Next]_vars

TypeOK ==
    /\ pc \in {"start", "decoded", "built", "marshaled", "rebuilt"}
    /\ origin \in {"bin", "json"}
    /\ tag \in ProtoIDs

(***************************************************************************)
(* Vocabulary of the properties.                                           *)
(***************************************************************************)
Supported == {ISISL1, ISISL2, OSPFv2, OSPFv3}
OSPFTags == {OSPFv2, OSPFv3}

\* bit k of an octet, bit 7 the most significant
Bit(o, k) == (o \div (2 ^ k)) % 2 = 1

\* the variant each tag stands for
VariantOfTag(t) ==
    CASE t \in {ISISL1, ISISL2} -> "adjISISFlags"
      [] t = OSPFv2 -> "adjOSPFv2Flags"
      [] t = OSPFv3 -> "adjOSPFv3Flags"

\* named flags of the variant of a tag, and the JSON key of each
NamesOfTag(t) ==
    IF t \in {ISISL1, ISISL2} THEN {"F", "B", "V", "L", "S", "P"}
    ELSE {"B", "V", "L", "G", "P"}
KeyOfName ==
    [n \in {"F", "B", "V", "L", "S", "G", "P"} |->
        CASE n = "F" -> "f_flag"
          [] n = "B" -> "b_flag"
          [] n = "V" -> "v_flag"
          [] n = "L" -> "l_flag"
          [] n = "S" -> "s_flag"
          [] n = "G" -> "g_flag"
          [] n = "P" -> "p_flag"]
KeysOfTag(t) == {KeyOfName[n] : n \in NamesOfTag(t)}

\* a named flag of a Flags value; false when the value has no such flag
Named(f, n) == IF n \in DOMAIN f THEN f[n] ELSE FALSE
BitVal(c, w) == IF c THEN w ELSE 0

\* the octet re-derived from a Flags value with the documented positions
ReDerive(t, f) ==
    IF t \in {ISISL1, ISISL2}
    THEN BitVal(Named(f, "F"), 128) + BitVal(Named(f, "B"), 64)
         + BitVal(Named(f, "V"), 32) + BitVal(Named(f, "L"), 16)
         + BitVal(Named(f, "S"), 8) + BitVal(Named(f, "P"), 4)
    ELSE BitVal(Named(f, "B"), 128) + BitVal(Named(f, "V"), 64)
         + BitVal(Named(f, "L"), 32) + BitVal(Named(f, "G"), 16)
         + BitVal(Named(f, "P"), 8)

\* the octet with its reserved bits cleared
Modeled(t, o) == IF t \in {ISISL1, ISISL2} THEN o - (o % 4) ELSE o - (o % 8)

Decoded == pc = "decoded" /\ origin = "bin"
Built == pc = "built" /\ origin = "json"

\* C1: with tag OSPFv2 or OSPFv3 and at least 4 bytes, the decoded Flags
\* name B, V, L, G, P and take them from bits 7, 6, 5, 4, 3 of byte 0.
C1_OSPFBitLayout ==
    (Decoded /\ tag \in OSPFTags /\ Len(tlv) >= 4) =>
        /\ asid # Nil
        /\ asid.Flags # Nil
        /\ {"B", "V", "L", "G", "P"} \subseteq DOMAIN asid.Flags
        /\ asid.Flags.B = Bit(tlv[1], 7)
        /\ asid.Flags.V = Bit(tlv[1], 6)
        /\ asid.Flags.L = Bit(tlv[1], 5)
        /\ asid.Flags.G = Bit(tlv[1], 4)
        /\ asid.Flags.P = Bit(tlv[1], 3)

\* C2: with a supported tag and fewer than 4 bytes, decode returns a
\* TruncatedInputError and no object, and does not abort.
C2_TruncatedInputError ==
    (Decoded /\ tag \in Supported /\ Len(tlv) < 4) =>
        /\ panicked = "none"
        /\ asid = Nil
        /\ err # Nil
        /\ err.msg = "TruncatedInputError"

\* the input with its two reserved bytes cleared
ZeroReserved(b) == [b EXCEPT ![3] = 0, ![4] = 0]

\* C3: with a supported tag and at least 4 bytes, decode succeeds, weight is
\* byte 1, sid is bytes 4..end (len - 4 of them), and the reserved bytes 2
\* and 3 change nothing in the result.
C3_WeightAndSID ==
    (Decoded /\ tag \in Supported /\ Len(tlv) >= 4) =>
        /\ panicked = "none"
        /\ err = Nil
        /\ asid # Nil
        /\ asid.Weight = tlv[2]
        /\ Len(asid.SID) = Len(tlv) - 4
        /\ \A i \in 1..Len(asid.SID) : asid.SID[i] = tlv[4 + i]
        /\ asid = UnmarshalAdjacencySIDTLV(tag, ZeroReserved(tlv)).asid

C3_Witness ==
    /\ Decoded
    /\ tag = ISISL2
    /\ Len(tlv) = 6
    /\ tlv[3] = 255
    /\ tlv[4] = 1
    /\ asid # Nil
    /\ asid.Weight = 10
    /\ asid.SID = <<1, 2>>

\* C4: with a supported tag, the octet re-derived from the decoded Flags
\* with that tag's documented bit positions is the input octet on all
\* modeled bits.
C4_BinaryRoundTrip ==
    (Decoded /\ tag \in Supported /\ Len(tlv) >= 4) =>
        /\ asid # Nil
        /\ asid.Flags # Nil
        /\ NamesOfTag(tag) \subseteq DOMAIN asid.Flags
        /\ ReDerive(tag, asid.Flags) = Modeled(tag, tlv[1])

\* C5: Flags built from JSON, serialised and built again under the same
\* tag are equal to the first Flags in every named bit.
C5_JSONRoundTrip ==
    (pc = "rebuilt" /\ origin = "json" /\ tag \in Supported) =>
        /\ err2 = Nil
        /\ asid2 # Nil
        /\ asid2.Flags = asid.Flags

\* C6: MarshalJSON emits exactly the keys of the tag's variant (g_flag
\* carrying G for OSPF, no f_flag, no s_flag), after decode and after build.
C6_SerializedKeys ==
    (pc = "marshaled" /\ tag \in Supported) =>
        /\ js.t = "obj"
        /\ DOMAIN js.m = KeysOfTag(tag)
        /\ tag \in OSPFTags => js.m["g_flag"] = JBool(Named(asid.Flags, "G"))

\* C7: the variant produced by decode and the variant produced by build are
\* the same, and it is the one the tag stands for.
C7_SameVariantOnBothPaths ==
    /\ (Decoded /\ tag \in Supported /\ asid # Nil) =>
        /\ asid.Flags # Nil
        /\ asid.Flags.variant = VariantOfTag(tag)
        /\ asid.Flags.variant =
              BuildAdjacencySID(tag, [k \in {"flags"} |-> JObj(EmptyMap)]).asid.Flags.variant
    /\ (Built /\ tag \in Supported /\ asid # Nil /\ "flags" \in DOMAIN jmap) =>
        /\ asid.Flags # Nil
        /\ asid.Flags.variant = VariantOfTag(tag)

\* "weight" and "sid" absent or of a form that parses
WeightParses(m) ==
    "weight" \in DOMAIN m =>
        \/ m["weight"].t = "null"
        \/ m["weight"].t = "num" /\ m["weight"].int /\ m["weight"].n \in 0..255
ElemParses(v) == v.t = "null" \/ (v.t = "num" /\ v.int /\ v.n \in 0..255)
SidParses(m) ==
    "sid" \in DOMAIN m =>
        \/ m["sid"].t = "null"
        \/ m["sid"].t = "str" /\ m["sid"].s \in {"", "AQID", "CQkJCQ=="}
        \/ m["sid"].t = "arr" /\ \A i \in 1..Len(m["sid"].e) : ElemParses(m["sid"].e[i])

\* C8: when every present recognized key of the "flags" object holds a
\* boolean, build succeeds and each named flag is the value under its key,
\* false when the key is absent; other keys change nothing.  (weight and sid
\* absent or well formed.)
C8_FlagDefaulting ==
    (/\ Built
     /\ tag \in Supported
     /\ "flags" \in DOMAIN jmap
     /\ jmap["flags"].t = "obj"
     /\ \A k \in KeysOfTag(tag) \cap DOMAIN jmap["flags"].m :
            jmap["flags"].m[k].t = "bool"
     /\ WeightParses(jmap)
     /\ SidParses(jmap)) =>
        /\ err = Nil
        /\ asid # Nil
        /\ asid.Flags # Nil
        /\ DOMAIN asid.Flags = NamesOfTag(tag) \cup {"variant"}
        /\ \A n \in NamesOfTag(tag) :
              asid.Flags[n] = IF KeyOfName[n] \in DOMAIN jmap["flags"].m
                              THEN jmap["flags"].m[KeyOfName[n]].b
                              ELSE FALSE

C8_Witness ==
    /\ Built
    /\ tag = OSPFv2
    /\ "flags" \in DOMAIN jmap
    /\ jmap["flags"].t = "obj"
    /\ DOMAIN jmap["flags"].m = {"b_flag", "g_flag", "f_flag"}
    /\ jmap["flags"].m["b_flag"] = JBool(TRUE)
    /\ jmap["flags"].m["g_flag"] = JBool(TRUE)
    /\ jmap["flags"].m["f_flag"] = JStr("x")
    /\ asid # Nil
    /\ asid.Flags.B /\ asid.Flags.G /\ ~asid.Flags.P /\ ~asid.Flags.V

\* a present key is malformed, as the claim lists the cases
MalformedAsClaimed(t, m) ==
    \/ "flags" \in DOMAIN m /\ m["flags"].t # "obj"
    \/ /\ "flags" \in DOMAIN m
       /\ m["flags"].t = "obj"
       /\ t \in Supported
       /\ \E k \in KeysOfTag(t) \cap DOMAIN m["flags"].m : m["flags"].m[k].t # "bool"
    \/ /\ "weight" \in DOMAIN m
       /\ (m["weight"].t # "num" \/ m["weight"].n \notin 0..255)
    \/ /\ "sid" \in DOMAIN m
       /\ ~ \/ m["sid"].t = "str" /\ m["sid"].s \in {"", "AQID", "CQkJCQ=="}
            \/ /\ m["sid"].t = "arr"
               /\ \A i \in 1..Len(m["sid"].e) :
                     LET v == m["sid"].e[i]
                     IN  v.t = "num" /\ v.int /\ v.n \in 0..255

MalformedNonNull(t, m) ==
    \/ "flags" \in DOMAIN m /\ m["flags"].t \notin {"obj", "null"}
    \/ /\ "flags" \in DOMAIN m
       /\ m["flags"].t = "obj"
       /\ t \in Supported
       /\ \E k \in KeysOfTag(t) \cap DOMAIN m["flags"].m :
             m["flags"].m[k].t \notin {"bool", "null"}
    \/ ~WeightParses(m)
    \/ ~SidParses(m)

C10_NoGuessedVariant ==
    tag \notin Supported =>
        /\ (Decoded /\ Len(tlv) >= 4) =>
              err # Nil \/ (asid # Nil /\ asid.Flags = Nil)
        /\ (Decoded /\ asid # Nil) => asid.Flags = Nil
        /\ Built => err # Nil \/ (asid # Nil /\ asid.Flags = Nil)

C10_Witness ==
    /\ Decoded
    /\ tag = "Direct"
    /\ Len(tlv) >= 4
    /\ tlv[1] = 255
    /\ asid # Nil
    /\ asid.Flags = Nil

====
